---- MODULE Spec2Model ----
(***************************************************************************)
(* Model of BPI_functions.py (bathy-derivatives): the range predicate      *)
(* run_con, the zone classifier classifyBPI, and the BPI computations bpi  *)
(* and stdbpi, and the terrain ruggedness terrug.  Rasters are functions    *)
(* from cells to integers; the raster engine (arcpy.sa) is modelled by its *)
(* cell-wise semantics.                                                    *)
(***************************************************************************)
EXTENDS Integers, Sequences, FiniteSets, TLC

VARIABLES
    pc, err,
    \* classifyBPI: input rasters
    bathy, slope, bpi_fine_std, bpi_broad_std,
    \* classifyBPI: locals
    classes, cur_class, cur_name, out_con, grids, key, merge_grid, i,
    \* classifyBPI: effects (output raster, its attribute table, scratch files)
    out_raster, table, scratch,
    \* history: table exhausted, criteria of the current rule seen so far
    exhausted, constrained, sat,
    \* messages passed to utils.msg so far; the warning text of classifyBPI
    log, warn_msg,
    \* bpi / stdbpi: radii, rasters computed and written, statistics
    inner_radius, outer_radius, result_raster, bpi_file,
    bpi_mean, bpi_std_dev, outRaster, std_file, divided,
    \* terrug: arguments and the rasters it computes
    hood_size, slope_raster, aspect_raster,
    x_raster_calc, y_raster_calc, z_raster_calc,
    x_sum_calc, y_sum_calc, z_sum_calc, result_vect, ruggedness,
    \* one call of run_con: its arguments and its return value
    rc_lower_bounds, rc_upper_bounds, rc_in_grid,
    rc_true_val, rc_true_alt, rc_out_grid

conVars == <<rc_lower_bounds, rc_upper_bounds, rc_in_grid,
             rc_true_val, rc_true_alt, rc_out_grid>>
inVars == <<bathy, slope, bpi_fine_std, bpi_broad_std>>
ruleVars == <<classes, cur_class, cur_name, key>>
chainVars == <<out_con, constrained, sat>>
mergeVars == <<merge_grid, i, exhausted>>
outVars == <<out_raster, table>>
clsVars == <<inVars, ruleVars, chainVars, grids, mergeVars, outVars, scratch>>
bpiVars == <<inner_radius, outer_radius, result_raster, bpi_file,
             bpi_mean, bpi_std_dev, outRaster, std_file, divided>>
msgVars == <<log, warn_msg>>
terIn == <<hood_size, slope_raster, aspect_raster>>
terXYZ == <<x_raster_calc, y_raster_calc, z_raster_calc>>
terSum == <<x_sum_calc, y_sum_calc, z_sum_calc>>
terVars == <<terIn, terXYZ, terSum, result_vect, ruggedness>>
\* what a classification run never touches
offVars == <<conVars, bpiVars, terVars>>
vars == <<pc, err, conVars, clsVars, msgVars, bpiVars, terVars>>

\* ---------------------------------------------------------------- bounds
NCells == 2
MaxVal == 1
MaxClass == 2
MaxRules == 2

Cells == 1..NCells
Vals == (0 - MaxVal)..MaxVal
ClassIds == 0..MaxClass

\* utils.msg(text): one entry of the log, the text's head and the name
\* formatted into it (the arguments run_con formats are left out)
Msg(head, name) == [head |-> head, name |-> name]

\* ------------------------------------------------- Python values (tagged)
\* None, a number, a string (text), or an arcpy.sa.Raster (cells).
\* A Raster with path <<>> is an engine-managed temporary.
\* nodata is the set of cells that hold no value.
None ==
    [kind |-> "None", val |-> 0, text |-> <<>>, cells |-> <<>>, path |-> <<>>,
     nodata |-> {}]
Num(x) == [None EXCEPT !.kind = "num", !.val = x]
Str(t) == [None EXCEPT !.kind = "str", !.text = t]
Raster(f) == [None EXCEPT !.kind = "Raster", !.cells = f]

\* ------------------------------------------- str() / "{}".format() / parse
DigitChar == <<"0", "1", "2", "3", "4", "5", "6", "7", "8", "9">>

RECURSIVE Digits(_)
Digits(m) ==
    IF m < 10 THEN <<DigitChar[m + 1]>>
    ELSE Digits(m \div 10) \o <<DigitChar[(m % 10) + 1]>>

\* str(item["Class"]), "{}".format(bound), str(row.getValue('VALUE'))
Format(x) == IF x < 0 THEN <<"-">> \o Digits(0 - x) ELSE Digits(x)

DigitVal(ch) == CHOOSE d \in 0..9 : DigitChar[d + 1] = ch

RECURSIVE ParseDigits(_)
ParseDigits(t) ==
    IF Len(t) = 0 THEN 0
    ELSE 10 * ParseDigits(SubSeq(t, 1, Len(t) - 1)) + DigitVal(t[Len(t)])

\* the engine's reading of a numeric text (where clause operand, constant)
Parse(t) == IF t[1] = "-" THEN 0 - ParseDigits(Tail(t)) ELSE ParseDigits(t)

\* --------------------------------------------------------------- arcpy Con
\* where clause "VALUE <op> {}".format(bound)
Where(op, bound) == [op |-> op, text |-> Format(bound.val)]

Holds(w, v) ==
    LET r == Parse(w.text) IN
    CASE w.op = "<" -> v < r
      [] w.op = ">" -> v > r
      [] w.op = "<=" -> v <= r
      [] w.op = ">=" -> v >= r
      [] w.op = "=" -> v = r

\* value an input of Con contributes at cell c: raster cell, or constant
CellOf(x, c) ==
    CASE x.kind = "Raster" -> x.cells[c]
      [] x.kind = "str" -> Parse(x.text)
      [] x.kind = "num" -> x.val

\* Con(in_conditional_raster, in_true, in_false, where_clause)
Con(in, t, f, w) ==
    Raster([c \in Cells |-> IF Holds(w, in.cells[c]) THEN CellOf(t, c)
                                                    ELSE CellOf(f, c)])

\* ----------------------------------------------------------------- run_con
\* both bounds set: two nested Con calls, "<" upper then ">" lower
con_both_incl(lb, ub, in, tv) ==
    LET out_grid_a == Con(in, tv, Num(0), Where("<=", ub))
    IN Con(in, out_grid_a, Num(0), Where(">=", lb))

con_both(lb, ub, in, tv) ==
    LET out_grid_a == Con(in, tv, Num(0), Where("<", ub))
    IN Con(in, out_grid_a, Num(0), Where(">", lb))

\* only one bound set
con_lower_strict(lb, in, tv) == Con(in, tv, Num(0), Where(">", lb))

con_lower(lb, in, tv) == Con(in, tv, Num(0), Where(">=", lb))

con_upper(ub, in, tv) == Con(in, tv, Num(0), Where("<=", ub))

\* no bound set: out_grid stays None unless true_val is a Raster
con_none_const(tv) ==
    IF tv.kind = "None" THEN None ELSE Raster([c \in Cells |-> CellOf(tv, c)])

con_none(tv) == IF tv.kind = "Raster" THEN tv ELSE None

\* (variant: the backup value is preferred over the value handed on)
run_con_alt_first(lower_bounds, upper_bounds, in_grid, true_val, true_alt) ==
    LET tv == IF true_alt.kind # "None" THEN true_alt ELSE true_val
    IN IF lower_bounds.kind # "None"
       THEN IF upper_bounds.kind # "None"
            THEN con_both(lower_bounds, upper_bounds, in_grid, tv)
            ELSE con_lower(lower_bounds, in_grid, tv)
       ELSE IF upper_bounds.kind # "None"
            THEN con_upper(upper_bounds, in_grid, tv)
            ELSE con_none(tv)

run_con(lower_bounds, upper_bounds, in_grid, true_val, true_alt) ==
    LET tv == IF true_val.kind = "None" THEN true_alt ELSE true_val
    IN IF lower_bounds.kind # "None"
       THEN IF upper_bounds.kind # "None"
            THEN con_both(lower_bounds, upper_bounds, in_grid, tv)
            ELSE con_lower(lower_bounds, in_grid, tv)
       ELSE IF upper_bounds.kind # "None"
            THEN con_upper(upper_bounds, in_grid, tv)
            ELSE con_none(tv)

\* ------------------------------------------------ run_con called on its own
Rasters == [Cells -> Vals]
\* masks an earlier criterion can hand on: one class id or 0 in each cell
MaskRasters == {f \in [Cells -> ClassIds] :
                  \E k \in ClassIds : \A c \in Cells : f[c] \in {0, k}}
OptBounds == {None} \cup {Num(b) : b \in Vals}
ClassStrs == {Str(Format(k)) : k \in ClassIds}
TrueVals == {None} \cup ClassStrs \cup {Raster(f) : f \in MaskRasters}
TrueAlts == {None} \cup ClassStrs \cup {Raster([c \in Cells |-> MaxClass])}

ClsIdle ==
    /\ bathy = None /\ slope = None /\ bpi_fine_std = None
    /\ bpi_broad_std = None
    /\ classes = <<>> /\ cur_class = None /\ cur_name = <<>>
    /\ out_con = None /\ grids = <<>> /\ key = <<>> /\ merge_grid = None
    /\ i = 0 /\ out_raster = None /\ table = <<>> /\ scratch = {}
    /\ exhausted = FALSE /\ constrained = {} /\ sat = {}

BpiIdle ==
    /\ inner_radius = 0 /\ outer_radius = 0
    /\ result_raster = None /\ bpi_file = None
    /\ bpi_mean = None /\ bpi_std_dev = None
    /\ outRaster = None /\ std_file = None /\ divided = FALSE

MsgIdle == log = <<>> /\ warn_msg = None

TerIdle ==
    /\ hood_size = 0 /\ slope_raster = None /\ aspect_raster = None
    /\ x_raster_calc = None /\ y_raster_calc = None /\ z_raster_calc = None
    /\ x_sum_calc = None /\ y_sum_calc = None /\ z_sum_calc = None
    /\ result_vect = None /\ ruggedness = None

ConIdle ==
    /\ rc_lower_bounds = None /\ rc_upper_bounds = None /\ rc_in_grid = None
    /\ rc_true_val = None /\ rc_true_alt = None /\ rc_out_grid = None

InitCon ==
    /\ pc = "con_call"
    /\ err = "none"
    /\ ClsIdle
    /\ BpiIdle
    /\ TerIdle
    /\ MsgIdle
    /\ rc_lower_bounds \in OptBounds
    /\ rc_upper_bounds \in OptBounds
    /\ rc_in_grid \in {Raster(f) : f \in Rasters}
    /\ rc_true_val \in TrueVals
    /\ rc_true_alt \in TrueAlts
    \* Con needs a true value whenever a bound is set
    /\ (rc_lower_bounds # None \/ rc_upper_bounds # None)
          => (rc_true_val # None \/ rc_true_alt # None)
    /\ rc_out_grid = None

RunConCall ==
    /\ pc = "con_call"
    /\ rc_out_grid' = run_con(rc_lower_bounds, rc_upper_bounds, rc_in_grid,
                            rc_true_val, rc_true_alt)
    /\ log' = Append(log, Msg("run_con", <<>>))
    /\ pc' = "con_ret"
    /\ UNCHANGED <<warn_msg, err, rc_lower_bounds, rc_upper_bounds,
                   rc_in_grid, rc_true_val, rc_true_alt, clsVars, bpiVars,
                   terVars>>

NextCon == RunConCall

SpecCon == InitCon /\ [][NextCon]_vars

\* the true value run_con uses: true_val, or true_alt when true_val is None
EffTrue == IF rc_true_val = None THEN rc_true_alt ELSE rc_true_val

\* number held by a true value at cell c, read off the inputs directly
TrueAt(x, c) ==
    IF x.kind = "Raster" THEN x.cells[c]
    ELSE CHOOSE k \in ClassIds : x = Str(Format(k))

\* C3: with both bounds set, a cell gets the true value iff
\* lower < v < upper strictly; a cell equal to either bound, or outside
\* the range, gets 0.
C3_StrictBetween ==
    (pc = "con_ret" /\ rc_lower_bounds # None /\ rc_upper_bounds # None) =>
        /\ rc_out_grid.kind = "Raster"
        /\ \A c \in Cells :
              rc_out_grid.cells[c] =
                IF rc_lower_bounds.val < rc_in_grid.cells[c]
                   /\ rc_in_grid.cells[c] < rc_upper_bounds.val
                THEN TrueAt(EffTrue, c) ELSE 0

C3_Witness ==
    /\ pc = "con_ret" /\ rc_lower_bounds # None /\ rc_upper_bounds # None
    /\ \E c \in Cells : rc_in_grid.cells[c] = rc_lower_bounds.val
                          /\ rc_out_grid.cells[c] = 0
    /\ \E c \in Cells : /\ rc_lower_bounds.val < rc_in_grid.cells[c]
                          /\ rc_in_grid.cells[c] < rc_upper_bounds.val
                          /\ rc_out_grid.cells[c] > 0

\* C4: with only one bound set the bound is inclusive: only lower set,
\* a cell gets the true value iff v >= lower; only upper set, iff
\* v <= upper; every other cell gets 0.
C4_InclusiveSingle ==
    /\ (pc = "con_ret" /\ rc_lower_bounds # None /\ rc_upper_bounds = None) =>
        /\ rc_out_grid.kind = "Raster"
        /\ \A c \in Cells :
              rc_out_grid.cells[c] =
                IF rc_in_grid.cells[c] >= rc_lower_bounds.val
                THEN TrueAt(EffTrue, c) ELSE 0
    /\ (pc = "con_ret" /\ rc_lower_bounds = None /\ rc_upper_bounds # None) =>
        /\ rc_out_grid.kind = "Raster"
        /\ \A c \in Cells :
              rc_out_grid.cells[c] =
                IF rc_in_grid.cells[c] <= rc_upper_bounds.val
                THEN TrueAt(EffTrue, c) ELSE 0

C4_Witness ==
    /\ pc = "con_ret" /\ rc_lower_bounds # None /\ rc_upper_bounds = None
    /\ \E c \in Cells : rc_in_grid.cells[c] = rc_lower_bounds.val
                          /\ rc_out_grid.cells[c] > 0
    /\ \E c \in Cells : rc_in_grid.cells[c] < rc_lower_bounds.val
                          /\ rc_out_grid.cells[c] = 0

\* ============================================================ classifyBPI
NVals == 2 * MaxVal + 1

\* an input raster: values cycle through Vals from offset o, cell by cell
Ramp(o) == Raster([c \in Cells |-> (0 - MaxVal) + ((o + c - 1) % NVals)])

\* item["Zone"] of the r-th table row, and "con_{}.tif".format(cur_name)
ZoneName(r) == <<"Z">> \o Digits(r)
ConName(name) == <<"con_">> \o name \o <<".tif">>

\* utils.save_raster(raster, name): writes the raster to the scratch
\* workspace under name and returns the saved raster
save_raster(raster, name) == [raster EXCEPT !.path = name]

\* key[cur_class] = cur_name
SetKey(k, cls, name) ==
    [t \in (DOMAIN k) \cup {cls} |-> IF t = cls THEN name ELSE k[t]]

\* cells whose value meets one criterion (lower, upper) of a rule
Qualifies(lb, ub, v) ==
    CASE lb # None /\ ub # None -> lb.val < v /\ v < ub.val
      [] lb # None /\ ub = None -> v >= lb.val
      [] lb = None /\ ub # None -> v <= ub.val
      [] lb = None /\ ub = None -> TRUE

\* history of the current rule: the criteria that had a bound, under the
\* tag the step gives (a whole run keeps one tag for all four criteria)
Seen(tag, lb, ub) ==
    IF lb = None /\ ub = None THEN constrained ELSE constrained \cup {tag}

StillSat(lb, ub, in) == {c \in sat : Qualifies(lb, ub, in.cells[c])}

InitRun ==
    /\ pc = "for"
    /\ err = "none"
    /\ ConIdle
    /\ BpiIdle
    /\ TerIdle
    /\ MsgIdle
    /\ classes = <<>> /\ cur_class = None /\ cur_name = <<>>
    /\ out_con = None /\ grids = <<>>
    /\ key = [t \in {Format(0)} |-> <<"None">>]
    /\ merge_grid = None /\ i = 0
    /\ out_raster = None /\ table = <<>> /\ scratch = {}
    /\ exhausted = FALSE /\ constrained = {} /\ sat = {}

Init ==
    /\ InitRun
    /\ bathy = Ramp(0) /\ slope = Ramp(1)
    /\ bpi_fine_std = Ramp(2) /\ bpi_broad_std = Ramp(3)

\* for item in classes: ... key[cur_class] = cur_name
NextItem ==
    /\ pc = "for"
    /\ Len(classes) < MaxRules
    /\ \E k \in ClassIds :
         LET name == ZoneName(Len(classes) + 1) IN
         /\ classes' = Append(classes, [Class |-> k, Zone |-> name])
         /\ cur_class' = Str(Format(k))
         /\ cur_name' = name
         /\ log' = Append(log, Msg("Calculating grid for", name))
         /\ key' = SetKey(key, Format(k), name)
    /\ out_con' = None
    /\ constrained' = {}
    /\ sat' = Cells
    /\ pc' = "depth"
    /\ UNCHANGED <<warn_msg, err, offVars, inVars, grids, mergeVars, outVars,
                   scratch>>

\* out_con = run_con(Depth_LowerBounds, Depth_UpperBounds, bathy, cur_class)
DepthStep(tag) ==
    /\ pc = "depth"
    /\ \E lb \in OptBounds, ub \in OptBounds :
         /\ out_con' = run_con(lb, ub, bathy, cur_class, None)
         /\ constrained' = Seen(tag, lb, ub)
         /\ sat' = StillSat(lb, ub, bathy)
    /\ log' = Append(log, Msg("run_con", <<>>))
    /\ pc' = "slope"
    /\ UNCHANGED <<warn_msg, err, offVars, inVars, ruleVars, grids, mergeVars,
                   outVars, scratch>>

\* out_con2 = run_con(Slope_LowerBounds, Slope_UpperBounds, slope, out_con,
\*                    cur_class)
SlopeStep(tag) ==
    /\ pc = "slope"
    /\ \E lb \in OptBounds, ub \in OptBounds :
         /\ out_con' = run_con(lb, ub, slope, out_con, cur_class)
         /\ constrained' = Seen(tag, lb, ub)
         /\ sat' = StillSat(lb, ub, slope)
    /\ log' = Append(log, Msg("run_con", <<>>))
    /\ pc' = "fine"
    /\ UNCHANGED <<warn_msg, err, offVars, inVars, ruleVars, grids, mergeVars,
                   outVars, scratch>>

\* out_con3 = run_con(LSB_LowerBounds, LSB_UpperBounds, bpi_fine_std,
\*                    out_con2, cur_class)
FineStep(tag) ==
    /\ pc = "fine"
    /\ \E lb \in OptBounds, ub \in OptBounds :
         /\ out_con' = run_con(lb, ub, bpi_fine_std, out_con, cur_class)
         /\ constrained' = Seen(tag, lb, ub)
         /\ sat' = StillSat(lb, ub, bpi_fine_std)
    /\ log' = Append(log, Msg("run_con", <<>>))
    /\ pc' = "broad"
    /\ UNCHANGED <<warn_msg, err, offVars, inVars, ruleVars, grids, mergeVars,
                   outVars, scratch>>

\* out_con4 = run_con(SSB_LowerBounds, SSB_UpperBounds, bpi_broad_std,
\*                    out_con3, cur_class)
BroadStep(tag) ==
    /\ pc = "broad"
    /\ \E lb \in OptBounds, ub \in OptBounds :
         /\ out_con' = run_con(lb, ub, bpi_broad_std, out_con, cur_class)
         /\ constrained' = Seen(tag, lb, ub)
         /\ sat' = StillSat(lb, ub, bpi_broad_std)
    /\ log' = Append(log, Msg("run_con", <<>>))
    /\ pc' = "record"
    /\ UNCHANGED <<warn_msg, err, offVars, inVars, ruleVars, grids, mergeVars,
                   outVars, scratch>>

Depth == DepthStep("some")
Slope == SlopeStep("some")
Fine == FineStep("some")
Broad == BroadStep("some")

\* warn_msg: "WARNING, no valid locations found for class {cur_name}"
\* followed by a line for each criterion that has a bound
WarnMsg(name, criteria) == [zone |-> name, criteria |-> criteria]

\* if type(out_con4) == arcpy.sa.Raster: save and record; else: build the
\* warning text, a local that is passed to no call, and go on
Record ==
    /\ pc = "record"
    /\ IF out_con.kind = "Raster"
       THEN LET rast == save_raster(out_con, ConName(cur_name)) IN
            /\ grids' = Append(grids, rast)
            /\ scratch' = scratch \cup {rast.path}
            /\ UNCHANGED warn_msg
       ELSE /\ warn_msg' = WarnMsg(cur_name, constrained)
            /\ UNCHANGED <<grids, scratch>>
    /\ constrained' = {}
    /\ sat' = {}
    /\ pc' = "for"
    /\ UNCHANGED <<log, err, offVars, inVars, ruleVars, out_con, mergeVars,
                   outVars>>

\* if len(grids) == 0
NoGridsOffByOne(g) == Len(g) <= 1

NoGrids(g) == Len(g) = 0

\* the table has no more rows: raise NoValidClasses, or merge_grid = grids[0]
EndOfTable ==
    /\ pc = "for"
    /\ exhausted' = TRUE
    /\ IF NoGrids(grids)
       THEN /\ pc' = "failed"
            /\ err' = "NoValidClasses"
            /\ UNCHANGED <<merge_grid, i>>
       ELSE /\ merge_grid' = grids[1]
            /\ i' = 1
            /\ pc' = "merge"
            /\ UNCHANGED err
    /\ UNCHANGED <<msgVars, offVars, inVars, ruleVars, chainVars, grids,
                   outVars, scratch>>

\* Con(merge_grid, grids[i], merge_grid, "VALUE = 0")
MergeConLastWins(m, g) == Con(g, m, g, Where("=", Num(0)))

MergeCon(m, g) == Con(m, g, m, Where("=", Num(0)))

\* for i in range(1, len(grids)): merge_grid = Con(...)
MergeStep ==
    /\ pc = "merge"
    /\ i < Len(grids)
    /\ merge_grid' = MergeCon(merge_grid, grids[i + 1])
    /\ i' = i + 1
    /\ UNCHANGED <<msgVars, pc, err, offVars, inVars, ruleVars, chainVars,
                   grids, exhausted, outVars, scratch>>

\* distinct cell values: the rows of the raster attribute table
ValuesOf(r) == {r.cells[c] : c \in Cells}

\* arcpy.CopyRaster_management(merge_grid, out_raster)
CopyRaster ==
    /\ pc = "merge"
    /\ i = Len(grids)
    /\ out_raster' = Raster(merge_grid.cells)
    /\ table' = <<>>
    /\ pc' = "addfield"
    /\ UNCHANGED <<msgVars, err, offVars, inVars, ruleVars, chainVars, grids,
                   mergeVars, scratch>>

\* arcpy.AddField_management(out_raster, 'Zone', 'TEXT')
AddField ==
    /\ pc = "addfield"
    /\ table' = [v \in ValuesOf(out_raster) |-> <<>>]
    /\ pc' = "delete"
    /\ UNCHANGED <<msgVars, err, offVars, inVars, ruleVars, chainVars, grids,
                   mergeVars, out_raster, scratch>>

\* arcpy.Delete_management(merge_grid)
Delete ==
    /\ pc = "delete"
    /\ scratch' = scratch \ {merge_grid.path}
    /\ pc' = "cursor"
    /\ UNCHANGED <<msgVars, err, offVars, inVars, ruleVars, chainVars, grids,
                   mergeVars, outVars>>

\* if val in key: key[val] else 'No Matching Zone'
ZoneLabelSwapped(k, val) ==
    IF val \notin DOMAIN k THEN <<"None">> ELSE <<"No Matching Zone">>

ZoneLabel(k, val) ==
    IF val \in DOMAIN k THEN k[val] ELSE <<"No Matching Zone">>

\* for row in cursor: val = str(row.getValue('VALUE')); row.setValue('Zone', ..)
Annotate ==
    /\ pc = "cursor"
    /\ table' = [v \in DOMAIN table |-> ZoneLabel(key, Format(v))]
    /\ pc' = "done"
    /\ UNCHANGED <<msgVars, err, offVars, inVars, ruleVars, chainVars, grids,
                   mergeVars, out_raster, scratch>>

\* an engine call raises: nothing in classifyBPI catches it
EnginePcs ==
    {"depth", "slope", "fine", "broad", "record", "merge", "addfield",
     "delete", "cursor"}

EngineFails ==
    /\ pc \in EnginePcs
    /\ pc = "record" => out_con.kind = "Raster"
    /\ pc' = "failed"
    /\ err' = "EngineFailure"
    /\ UNCHANGED <<msgVars, offVars, clsVars>>

Next ==
    \/ NextItem
    \/ Depth
    \/ Slope
    \/ Fine
    \/ Broad
    \/ Record
    \/ EndOfTable
    \/ MergeStep
    \/ CopyRaster
    \/ AddField
    \/ Delete
    \/ Annotate
    \/ EngineFails

Spec == Init /\ [][Next]_vars

\* --------------------------------------- one rule's chain, any input rasters
InitChain ==
    /\ InitRun
    /\ \E o \in [1..2 -> 0..(NVals - 1)] :
         /\ bathy = Ramp(o[1]) /\ slope = Ramp(o[2])
         /\ bpi_fine_std = Ramp(o[2] + 1) /\ bpi_broad_std = Ramp(o[1] + 2)

FirstItem == classes = <<>> /\ NextItem
ChainDepth == DepthStep("depth")
ChainSlope == SlopeStep("slope")
ChainFine == FineStep("fine")
ChainBroad == BroadStep("broad")

NextChain ==
    \/ FirstItem
    \/ ChainDepth
    \/ ChainSlope
    \/ ChainFine
    \/ ChainBroad

SpecChain == InitChain /\ [][NextChain]_vars

\* ------------------------------------------------------------ properties
NoBounds == rc_lower_bounds = None /\ rc_upper_bounds = None

\* C5 as stated: with both bounds unset, run_con returns true_val unchanged
\* when true_val is a raster, and otherwise a constant raster equal to the
\* fallback.
C5_Original ==
    (pc = "con_ret" /\ NoBounds) =>
        IF rc_true_val.kind = "Raster"
        THEN rc_out_grid = rc_true_val
        ELSE /\ rc_out_grid.kind = "Raster"
             /\ rc_true_alt # None =>
                  \A c \in Cells : rc_out_grid.cells[c] = TrueAt(rc_true_alt, c)

\* C5 amended: with both bounds unset, run_con returns true_val unchanged
\* when true_val is a raster; returns the fallback unchanged when true_val
\* is None and the fallback is a raster; and returns None (no raster) in
\* every other case.
C5_FallThrough ==
    (pc = "con_ret" /\ NoBounds) =>
        rc_out_grid =
          IF rc_true_val.kind = "Raster" THEN rc_true_val
          ELSE IF rc_true_val = None /\ rc_true_alt.kind = "Raster"
               THEN rc_true_alt
               ELSE None

C5_Witness ==
    /\ pc = "con_ret" /\ NoBounds
    /\ rc_true_val.kind = "str" /\ rc_true_alt.kind = "str"
    /\ rc_out_grid = None

\* value of the first recorded mask, among the first k, that is non-zero at
\* cell c; 0 when none is
FirstNonZero(c, k) ==
    LET hit == {j \in 1..k : grids[j].cells[c] # 0} IN
    IF hit = {} THEN 0
    ELSE grids[CHOOSE j \in hit : \A h \in hit : j <= h].cells[c]

\* C1: after folding the first i recorded masks, every cell of the merged
\* raster holds the value of the first mask (in table order) that is
\* non-zero there, and 0 if none is; so a cell that is non-zero after mask
\* i is never changed by a later mask.
C1_FirstWriteWins ==
    merge_grid.kind = "Raster" =>
        \A c \in Cells : merge_grid.cells[c] = FirstNonZero(c, i)

C1_Witness ==
    /\ pc = "addfield"
    /\ Len(grids) >= 2
    /\ \E c \in Cells :
         /\ grids[1].cells[c] # 0
         /\ grids[2].cells[c] # 0
         /\ grids[1].cells[c] # grids[2].cells[c]
         /\ out_raster.cells[c] = grids[1].cells[c]
    /\ \E c \in Cells :
         /\ grids[1].cells[c] = 0
         /\ out_raster.cells[c] = grids[2].cells[c]
         /\ out_raster.cells[c] # 0

\* C2: for a rule with at least one constrained criterion, the mask left by
\* the four chained run_con calls holds the rule's class id at exactly the
\* cells that meet every constrained criterion and 0 elsewhere; criteria
\* without bounds change nothing, wherever they stand in the chain.
C2_ChainMask ==
    (pc = "record" /\ constrained # {}) =>
        /\ out_con.kind = "Raster"
        /\ \A c \in Cells :
             out_con.cells[c] =
               IF c \in sat THEN classes[Len(classes)].Class ELSE 0

C2_Witness ==
    /\ pc = "record"
    /\ constrained = {"slope", "broad"}
    /\ classes[Len(classes)].Class > 0
    /\ sat # {} /\ sat # Cells
    /\ \A c \in Cells :
         out_con.cells[c] = IF c \in sat THEN classes[Len(classes)].Class ELSE 0

\* C6: classifyBPI fails with NoValidClasses exactly when the whole table
\* has been processed and no rule produced a mask (an empty table included);
\* then nothing was merged and no output raster was written.
C6_NoValidClasses ==
    /\ err = "NoValidClasses" =>
         /\ exhausted /\ Len(grids) = 0
         /\ merge_grid = None /\ out_raster = None /\ table = <<>>
    /\ (exhausted /\ Len(grids) = 0) =>
         (pc = "failed" /\ err = "NoValidClasses")

C6_Witness ==
    /\ err = "NoValidClasses" /\ pc = "failed"
    /\ classes = <<>>
    /\ out_raster = None

C8_ScratchReleased ==
    pc \in {"done", "failed"} => scratch = {}

\* ============================================================ bpi, stdbpi
MaxDepth == 3
MaxRadius == 2

\* the bathymetry raster of bpi is one row of cells, one longer than Cells
BpiCells == 1..(NCells + 1)
Depths == (0 - MaxDepth)..0

Abs(x) == IF x < 0 THEN 0 - x ELSE x

RECURSIVE SumOver(_, _)
SumOver(f, S) ==
    IF S = {} THEN 0
    ELSE LET c == CHOOSE d \in S : TRUE IN f[c] + SumOver(f, S \ {c})

\* NbrAnnulus(inner_radius, outer_radius, "CELL") around cell c
NbrAnnulus(inner, outer, c) ==
    {d \in BpiCells : inner <= Abs(d - c) /\ Abs(d - c) <= outer}

\* arcpy.sa.Int: the integer part of num / den (den > 0), truncated toward
\* zero
IntFloor(num, den) == num \div den

IntOf(num, den) ==
    IF num >= 0 THEN num \div den ELSE 0 - ((0 - num) \div den)

\* bathy - focal mean at cell c as the fraction XNum / XDen, the mean taken
\* over the cells of the annulus that lie inside the raster
XDen(c) == Cardinality(NbrAnnulus(inner_radius, outer_radius, c))
XNum(c) ==
    XDen(c) * bathy.cells[c]
      - SumOver(bathy.cells, NbrAnnulus(inner_radius, outer_radius, c))

\* cells whose annulus holds no cell of the raster get no value
NoFocal == {c \in BpiCells : XDen(c) = 0}

InitBpi ==
    /\ pc = "bpi_focal"
    /\ err = "none"
    /\ ConIdle
    /\ bathy \in {Raster(f) : f \in [BpiCells -> Depths]}
    /\ slope = None /\ bpi_fine_std = None /\ bpi_broad_std = None
    /\ classes = <<>> /\ cur_class = None /\ cur_name = <<>>
    /\ out_con = None /\ grids = <<>> /\ key = <<>> /\ merge_grid = None
    /\ i = 0 /\ out_raster = None /\ table = <<>> /\ scratch = {}
    /\ exhausted = FALSE /\ constrained = {} /\ sat = {}
    /\ inner_radius \in 1..MaxRadius
    /\ outer_radius \in (inner_radius + 1)..(MaxRadius + 1)
    /\ result_raster = None /\ bpi_file = None
    /\ bpi_mean = None /\ bpi_std_dev = None
    /\ outRaster = None /\ std_file = None /\ divided = FALSE
    /\ TerIdle
    /\ MsgIdle

\* result_raster = Int(Plus(Minus(bathy, out_focal_statistics), 0.5))
\*   x + 0.5 = (2 * XNum + XDen) / (2 * XDen)
BpiFocal ==
    /\ pc = "bpi_focal"
    /\ result_raster' =
         [Raster([c \in BpiCells |->
                    IF c \in NoFocal THEN 0
                    ELSE IntOf(2 * XNum(c) + XDen(c), 2 * XDen(c))])
          EXCEPT !.nodata = NoFocal]
    /\ pc' = "bpi_copy"
    /\ UNCHANGED <<msgVars, err, conVars, clsVars, terVars, inner_radius,
                   outer_radius, bpi_file, bpi_mean, bpi_std_dev, outRaster,
                   std_file, divided>>

\* arcpy.CopyRaster_management(result_raster, out_raster_path)
BpiCopy ==
    /\ pc = "bpi_copy"
    /\ bpi_file' = result_raster
    /\ pc' = "std_stats"
    /\ UNCHANGED <<msgVars, err, conVars, clsVars, terVars, inner_radius,
                   outer_radius, result_raster, bpi_mean, bpi_std_dev,
                   outRaster, std_file, divided>>

\* statistics of the cells that hold a value: with n cells, sum S and sum of
\* squares Q, MEAN = S / n and STD = sqrt(n * Q - S * S) / n
DataCells(r) == BpiCells \ r.nodata
StatN(r) == Cardinality(DataCells(r))
StatSum(r) == SumOver(r.cells, DataCells(r))
StatSumSq(r) == SumOver([c \in BpiCells |-> r.cells[c] * r.cells[c]],
                        DataCells(r))

\* bpi_mean = raster_properties(.., "MEAN"); bpi_std_dev = (.., "STD");
\* a raster without any value has no statistics: the call raises
StdStats ==
    /\ pc = "std_stats"
    /\ IF StatN(bpi_file) = 0
       THEN /\ pc' = "failed"
            /\ err' = "EngineFailure"
            /\ UNCHANGED <<bpi_mean, bpi_std_dev>>
       ELSE /\ bpi_mean' = [num |-> StatSum(bpi_file), den |-> StatN(bpi_file)]
            /\ bpi_std_dev' =
                 [sq |-> StatN(bpi_file) * StatSumSq(bpi_file)
                           - StatSum(bpi_file) * StatSum(bpi_file),
                  den |-> StatN(bpi_file)]
            /\ pc' = "std_calc"
            /\ UNCHANGED err
    /\ UNCHANGED <<msgVars, conVars, clsVars, terVars, inner_radius,
                   outer_radius, result_raster, bpi_file, outRaster, std_file,
                   divided>>

\* k <= 100 * a / sqrt(V) + 0.5, i.e. (2k - 1) * sqrt(V) <= 200 * a
AtMost(k, a, V) ==
    LET L == 2 * k - 1
        R == 200 * a
    IN CASE L <= 0 /\ R >= 0 -> TRUE
         [] L > 0 /\ R < 0 -> FALSE
         [] L > 0 /\ R >= 0 -> L * L * V <= R * R
         [] L <= 0 /\ R < 0 -> L * L * V >= R * R

\* k >= 100 * a / sqrt(V) + 0.5
AtLeast(k, a, V) ==
    LET L == 2 * k - 1
        R == 200 * a
    IN CASE L >= 0 /\ R <= 0 -> TRUE
         [] L < 0 /\ R > 0 -> FALSE
         [] L >= 0 /\ R > 0 -> L * L * V >= R * R
         [] L < 0 /\ R <= 0 -> L * L * V <= R * R

\* Int(Plus(Times(Divide(Minus(bpi, mean), std), 100), 0.5)) for one cell:
\* (bpi - mean) / std = a / sqrt(V) with a = n * bpi - S, V = n * Q - S * S
StdCell(v) ==
    LET a == bpi_mean.den * v - bpi_mean.num
        V == bpi_std_dev.sq
        K == 100 * bpi_mean.den + 1
    IN IF AtMost(0, a, V)
       THEN CHOOSE k \in 0..K : AtMost(k, a, V) /\ ~AtMost(k + 1, a, V)
       ELSE CHOOSE k \in (0 - K)..0 : AtLeast(k, a, V) /\ ~AtLeast(k - 1, a, V)

\* outRaster = Int(Plus(Times(Divide(Minus(bpi_raster_path, bpi_mean),
\*                                   bpi_std_dev), 100), 0.5))
\* the engine's Divide gives no value in a cell whose divisor is 0
StdCalc ==
    /\ pc = "std_calc"
    /\ divided' = TRUE
    /\ outRaster' =
         IF bpi_std_dev.sq = 0
         THEN [Raster([c \in BpiCells |-> 0]) EXCEPT !.nodata = BpiCells]
         ELSE [Raster([c \in BpiCells |->
                         IF c \in bpi_file.nodata THEN 0
                         ELSE StdCell(bpi_file.cells[c])])
               EXCEPT !.nodata = bpi_file.nodata]
    /\ pc' = "std_copy"
    /\ UNCHANGED <<msgVars, err, conVars, clsVars, terVars, inner_radius,
                   outer_radius, result_raster, bpi_file, bpi_mean,
                   bpi_std_dev, std_file>>

\* arcpy.CopyRaster_management(outRaster, out_raster)
StdCopy ==
    /\ pc = "std_copy"
    /\ std_file' = outRaster
    /\ pc' = "std_done"
    /\ UNCHANGED <<msgVars, err, conVars, clsVars, terVars, inner_radius,
                   outer_radius, result_raster, bpi_file, bpi_mean,
                   bpi_std_dev, outRaster, divided>>

NextBpi ==
    \/ BpiFocal
    \/ BpiCopy
    \/ StdStats
    \/ StdCalc
    \/ StdCopy

SpecBpi == InitBpi /\ [][NextBpi]_vars

\* C9 as stated: when the BPI raster has standard deviation 0, stdbpi fails
\* with DegenerateInput, never divides by the standard deviation and never
\* writes an output raster.
C9_DegenerateInput ==
    (bpi_std_dev # None /\ bpi_std_dev.sq = 0) =>
        /\ ~divided
        /\ std_file = None
        /\ pc \in {"std_calc", "failed"}
        /\ pc = "failed" => err = "DegenerateInput"

\* floor(x + 0.5) for x = XNum / XDen
HalfUp(c) == (2 * XNum(c) + XDen(c)) \div (2 * XDen(c))

\* C10 as stated: the rounding of bpi gives floor(x + 0.5) for every
\* difference x = bathymetry - focal mean, negative ones included.
C10_Original ==
    result_raster.kind = "Raster" =>
        \A c \in BpiCells \ NoFocal : result_raster.cells[c] = HalfUp(c)

\* C10 amended: Int truncates toward zero, so the rounding gives
\* floor(x + 0.5) when x >= -0.5 or x + 0.5 is an integer, and
\* floor(x + 0.5) + 1 for every other (negative) x.
C10_TruncTowardZero ==
    result_raster.kind = "Raster" =>
        \A c \in BpiCells \ NoFocal :
            result_raster.cells[c] =
              IF 2 * XNum(c) + XDen(c) >= 0
                 \/ (2 * XNum(c) + XDen(c)) % (2 * XDen(c)) = 0
              THEN HalfUp(c)
              ELSE HalfUp(c) + 1

C10_Witness ==
    /\ result_raster.kind = "Raster"
    /\ \E c \in BpiCells \ NoFocal :
         /\ 2 * XNum(c) + XDen(c) < 0
         /\ (2 * XNum(c) + XDen(c)) % (2 * XDen(c)) # 0
         /\ result_raster.cells[c] = HalfUp(c) + 1
    /\ \E c \in BpiCells \ NoFocal :
         /\ XNum(c) < 0
         /\ result_raster.cells[c] = HalfUp(c)

\* ================================================================= terrug
MaxHood == 3

\* the slope and aspect rasters are squares of TSide x TSide cells <<row, col>>
TSide == NCells + 1
TCells == (1..TSide) \X (1..TSide)

\* Floating-point rasters are held in fixed point.  Sin and Cos give their
\* value in units of 1 / Scale, rounded to the nearest unit; x, y and the
\* vector sums are in units of 1 / (Scale * Scale).
Scale == 50

\* angles in degrees that the input rasters hold; -1 is the aspect of a
\* flat cell
SlopeVals == <<0, 37, 90>>
AspectVals == <<0 - 1, 37, 180, 270>>

\* raster * (math.pi / 180): the angle as a multiple of pi / 180
ToRad(deg) == [pi180 |-> deg]

Sin(rad) ==
    CASE rad.pi180 = 0 - 1 -> 0 - 1
      [] rad.pi180 = 0 -> 0
      [] rad.pi180 = 37 -> 30
      [] rad.pi180 = 90 -> 50
      [] rad.pi180 = 180 -> 0
      [] rad.pi180 = 270 -> 0 - 50

Cos(rad) ==
    CASE rad.pi180 = 0 - 1 -> 50
      [] rad.pi180 = 0 -> 50
      [] rad.pi180 = 37 -> 40
      [] rad.pi180 = 90 -> 0
      [] rad.pi180 = 180 -> 0 - 50
      [] rad.pi180 = 270 -> 0

\* the integer part of the square root of v, v < top * top
RECURSIVE SqrtIn(_, _, _)
SqrtIn(lo, hi, v) ==
    IF hi - lo <= 1 THEN lo
    ELSE LET mid == (lo + hi) \div 2
         IN IF mid * mid <= v THEN SqrtIn(mid, hi, v) ELSE SqrtIn(lo, mid, v)

Sqrt(v, top) == SqrtIn(0, top, v)

\* NbrRectangle(hood_size, hood_size, "CELL") around cell c: the processing
\* cell is at position (hood_size + 1) div 2 from the upper left corner
NbrRectangle(n, c) ==
    LET p == (n + 1) \div 2
    IN {<<c[1] + dr, c[2] + dc>> :
          dr \in (1 - p)..(n - p), dc \in (1 - p)..(n - p)}

\* a raster whose cell <<r, c>> holds vals[(a * r + b * c + o) mod Len(vals)]
Pattern(vals, a, b, o) ==
    [c \in TCells |-> vals[((a * c[1] + b * c[2] + o) % Len(vals)) + 1]]

InitRug ==
    /\ pc = "rug_xyz"
    /\ err = "none"
    /\ ConIdle
    /\ ClsIdle
    /\ BpiIdle
    /\ MsgIdle
    /\ hood_size \in 1..MaxHood
    /\ \E a, b \in 0..(Len(SlopeVals) - 1),
          holes \in {{}} \cup {{c} : c \in TCells} :
         /\ slope_raster =
              [Raster(Pattern(SlopeVals, a, b, 0)) EXCEPT !.nodata = holes]
         /\ \E p, q, o \in 0..(Len(AspectVals) - 1) :
              aspect_raster =
                [Raster(Pattern(AspectVals, p, q, o)) EXCEPT !.nodata = holes]
    /\ x_raster_calc = None /\ y_raster_calc = None /\ z_raster_calc = None
    /\ x_sum_calc = None /\ y_sum_calc = None /\ z_sum_calc = None
    /\ result_vect = None /\ ruggedness = None

\* Con(aspect_raster == -1, 0, Sin(aspect_rad)) at one cell
ConFlatSwapped(aspect, other) == IF aspect = 0 - 1 THEN other ELSE 0

ConFlat(aspect, other) == IF aspect = 0 - 1 THEN 0 ELSE other

\* slope_rad, aspect_rad, xy_raster_calc, z_raster_calc, x_raster_calc and
\* y_raster_calc, cell by cell; a cell without a value gives none
RugXYZ ==
    /\ pc = "rug_xyz"
    /\ LET slope_rad == [c \in TCells |-> ToRad(slope_raster.cells[c])]
           aspect_rad == [c \in TCells |-> ToRad(aspect_raster.cells[c])]
           xy_raster_calc == [c \in TCells |-> Sin(slope_rad[c])]
           holes == slope_raster.nodata \cup aspect_raster.nodata
       IN /\ z_raster_calc' =
               [Raster([c \in TCells |-> Cos(slope_rad[c])])
                EXCEPT !.nodata = slope_raster.nodata]
          /\ x_raster_calc' =
               [Raster([c \in TCells |->
                          ConFlat(aspect_raster.cells[c], Sin(aspect_rad[c]))
                            * xy_raster_calc[c]])
                EXCEPT !.nodata = holes]
          /\ y_raster_calc' =
               [Raster([c \in TCells |->
                          ConFlat(aspect_raster.cells[c], Cos(aspect_rad[c]))
                            * xy_raster_calc[c]])
                EXCEPT !.nodata = holes]
    /\ pc' = "rug_sum"
    /\ UNCHANGED <<msgVars, err, conVars, clsVars, bpiVars, terIn, terSum,
                   result_vect, ruggedness>>

\* cells whose window leaves the raster or holds a cell without a value:
\* with "NODATA" the sum has no value there
NoSum(r) ==
    {c \in TCells :
        \/ ~(NbrRectangle(hood_size, c) \subseteq TCells)
        \/ NbrRectangle(hood_size, c) \cap r.nodata # {}}

\* FocalStatistics(r, hood, "SUM", "NODATA")
FocalSum(r) ==
    [Raster([c \in TCells |->
               IF c \in NoSum(r) THEN 0
               ELSE SumOver(r.cells, NbrRectangle(hood_size, c))])
     EXCEPT !.nodata = NoSum(r)]

RugSums ==
    /\ pc = "rug_sum"
    /\ x_sum_calc' = FocalSum(x_raster_calc)
    /\ y_sum_calc' = FocalSum(y_raster_calc)
    /\ z_sum_calc' = FocalSum(z_raster_calc)
    /\ pc' = "rug_vect"
    /\ UNCHANGED <<msgVars, err, conVars, clsVars, bpiVars, terIn, terXYZ,
                   result_vect, ruggedness>>

\* result_vect = (x_sum_calc**2 + y_sum_calc**2 + z_sum_calc**2)**0.5,
\* in units of 1 / (Scale * Scale)
RugVect ==
    /\ pc = "rug_vect"
    /\ LET holes == x_sum_calc.nodata \cup y_sum_calc.nodata
                      \cup z_sum_calc.nodata
       IN result_vect' =
            [Raster([c \in TCells |->
                       IF c \in holes THEN 0
                       ELSE Sqrt(x_sum_calc.cells[c] * x_sum_calc.cells[c]
                                   + y_sum_calc.cells[c] * y_sum_calc.cells[c]
                                   + (Scale * z_sum_calc.cells[c])
                                       * (Scale * z_sum_calc.cells[c]),
                                 hood_size * hood_size * Scale * Scale + 2)])
             EXCEPT !.nodata = holes]
    /\ pc' = "rug_rug"
    /\ UNCHANGED <<msgVars, err, conVars, clsVars, bpiVars, terIn, terXYZ,
                   terSum, ruggedness>>

\* 1 - (result_vect / hood_size**2) at one cell, as the numerator of a
\* fraction over RugDen
RugDen == hood_size * hood_size * Scale * Scale

RugCellLinear(v) == hood_size * Scale * Scale - v

RugCell(v) == RugDen - v

\* ruggedness = 1 - (result_vect / hood_size**2);
\* arcpy.CopyRaster_management(ruggedness, out_raster)
RugCopy ==
    /\ pc = "rug_rug"
    /\ ruggedness' =
         [Raster([c \in TCells |->
                    IF c \in result_vect.nodata THEN 0
                    ELSE RugCell(result_vect.cells[c])])
          EXCEPT !.nodata = result_vect.nodata]
    /\ out_raster' = ruggedness'
    /\ pc' = "rug_done"
    /\ UNCHANGED <<msgVars, err, conVars, bpiVars, inVars, ruleVars,
                   chainVars, grids, mergeVars, table, scratch, terIn, terXYZ,
                   terSum, result_vect>>

NextRug ==
    \/ RugXYZ
    \/ RugSums
    \/ RugVect
    \/ RugCopy

SpecRug == InitRug /\ [][NextRug]_vars

\* cells whose window lies inside the raster and holds a value everywhere
Interior ==
    {c \in TCells :
        /\ NbrRectangle(hood_size, c) \subseteq TCells
        /\ NbrRectangle(hood_size, c)
             \cap (slope_raster.nodata \cup aspect_raster.nodata) = {}}

Planar ==
    \A c \in TCells \ slope_raster.nodata : slope_raster.cells[c] = 0

\* C11: on a planar input (slope 0 in every cell, whatever the aspects and
\* the window size) the ruggedness written is exactly 0 in every interior
\* cell.
C11_PlanarZero ==
    (pc = "rug_done" /\ Planar) =>
        \A c \in Interior :
            /\ c \notin out_raster.nodata
            /\ out_raster.cells[c] = 0

C11_Witness ==
    /\ pc = "rug_done"
    /\ Planar
    /\ hood_size > 1
    /\ \E c, d \in TCells :
         aspect_raster.cells[c] # aspect_raster.cells[d]
    /\ \E c \in Interior :
         c \notin out_raster.nodata /\ out_raster.cells[c] = 0

\* cells that hold a value and the flat-aspect sentinel -1
FlatCells ==
    {c \in TCells \ (slope_raster.nodata \cup aspect_raster.nodata) :
        aspect_raster.cells[c] = 0 - 1}

\* the horizontal components summed over the cells of a window that are
\* not flat
SumNotFlat(r, c) == SumOver(r.cells, NbrRectangle(hood_size, c) \ FlatCells)

\* C12: a cell whose aspect is -1 has x = 0 and y = 0 whatever its slope,
\* and so adds nothing to the x and y sums of any window holding it, while
\* its z = cos(slope) enters the z sum unchanged.
C12_FlatAspect ==
    /\ x_raster_calc # None =>
         \A c \in FlatCells :
             /\ x_raster_calc.cells[c] = 0
             /\ y_raster_calc.cells[c] = 0
             /\ z_raster_calc.cells[c] = Cos(ToRad(slope_raster.cells[c]))
    /\ x_sum_calc # None =>
         \A c \in TCells \ x_sum_calc.nodata :
             /\ x_sum_calc.cells[c] = SumNotFlat(x_raster_calc, c)
             /\ y_sum_calc.cells[c] = SumNotFlat(y_raster_calc, c)
             /\ z_sum_calc.cells[c] =
                  SumOver([d \in TCells |-> Cos(ToRad(slope_raster.cells[d]))],
                          NbrRectangle(hood_size, c))

C12_Witness ==
    /\ x_sum_calc # None
    /\ hood_size > 1
    /\ \E c \in TCells \ x_sum_calc.nodata :
         /\ \E d \in NbrRectangle(hood_size, c) \cap FlatCells :
              /\ Sin(ToRad(slope_raster.cells[d])) # 0
              /\ z_raster_calc.cells[d] # 0
         /\ x_sum_calc.cells[c] # 0
         /\ y_sum_calc.cells[c] # 0

\* ===================================== classifyBPI: zone key and warnings
\* the rules whose mask was saved and appended to grids
RecordedRules ==
    {r \in 1..Len(classes) :
        \E j \in 1..Len(grids) : grids[j].path = ConName(classes[r].Zone)}

\* no rule is being evaluated
BetweenRules == pc \in {"for", "merge", "addfield", "delete", "cursor", "done"}

\* C13 as stated: the zone key holds an entry only for the rules whose mask
\* was recorded: a skipped rule adds none, so the key is 0 -> "None" plus
\* the entries of the recorded rules.
C13_KeyOnlyRecorded ==
    BetweenRules =>
        /\ \A r \in RecordedRules : Format(classes[r].Class) \in DOMAIN key
        /\ \A t \in DOMAIN key :
             \/ t = Format(0) /\ key[t] = <<"None">>
             \/ \E r \in RecordedRules :
                  /\ Format(classes[r].Class) = t
                  /\ key[t] = classes[r].Zone

\* the rule being recorded has a criterion with a bound, and no cell meets
\* all its criteria
NoCellMatches == pc = "record" /\ constrained # {} /\ sat = {}

\* C14 as stated: when no cell satisfies a rule's constrained criteria, a
\* warning that names the rule and those criteria is logged, the rule is
\* skipped (no mask is recorded for it), and the run goes on with the next
\* rule without failing.
C14_NoMatchWarned ==
    [][(NoCellMatches /\ err' # "EngineFailure") =>
          /\ \E k \in (Len(log) + 1)..Len(log') :
               /\ log'[k].head = "WARNING, no valid locations found for class"
               /\ log'[k].name.zone = cur_name
               /\ log'[k].name.criteria = constrained
          /\ grids' = grids
          /\ pc' = "for"
          /\ err' = err]_vars

\* the table row whose mask is grids[j]
RuleOf(j) ==
    CHOOSE r \in 1..Len(classes) : ConName(classes[r].Zone) = grids[j].path

\* the first recorded mask that is not 0 at cell c
FirstMask(c) ==
    CHOOSE j \in 1..Len(grids) :
        /\ grids[j].cells[c] # 0
        /\ \A h \in 1..(j - 1) : grids[h].cells[c] = 0

\* C15 as stated: whatever the table (rules sharing a Class value, a rule
\* of Class 0), the Zone annotated on a non-zero cell of the output is the
\* Zone of the first rule in table order whose mask is non-zero there, and
\* the cells with value 0 are annotated "None".
C15_ZoneOfFirstRule ==
    pc = "done" =>
        \A c \in Cells :
            table[out_raster.cells[c]] =
              IF out_raster.cells[c] = 0 THEN <<"None">>
              ELSE classes[RuleOf(FirstMask(c))].Zone

====
